---- MODULE Spec2Model ----
(***************************************************************************)
(* krux-file-signer: the air-gapped sign / verify workflow.                *)
(*                                                                         *)
(* Two sign entry points are modelled: the stand-alone script               *)
(* (src/src/krux-file-signer.py) and the Signer class                      *)
(* (src/src/cli/signer.py).  Texts that the code inspects character by     *)
(* character (scanned QR payloads, hex and base64 data) are sequences of   *)
(* one-character strings; file names and digests are plain strings.        *)
(***************************************************************************)
EXTENDS Integers, Sequences, FiniteSets, TLC

(***************************************************************************)
(* Bounds of the model.                                                    *)
(***************************************************************************)
\* longest scanned signature text that is enumerated exhaustively
MaxSigLen == 4
\* longest scanned public-key text that is enumerated exhaustively
MaxKeyLen == 3
\* number of frames scan() may poll without a decode before the model
\* forces an outcome (decode, quit key or failure)
MaxFrames == 2

(***************************************************************************)
(* Generic helpers.                                                        *)
(***************************************************************************)
RECURSIVE SeqsUpTo(_, _)
SeqsUpTo(S, n) ==
    IF n = 0 THEN {<<>>}
    ELSE LET shorter == SeqsUpTo(S, n - 1)
         IN  shorter \cup {Append(s, c) : s \in shorter, c \in S}

\* n copies of s, one after the other
Rep(s, n) == [i \in 1..(n * Len(s)) |-> s[((i - 1) % Len(s)) + 1]]

(***************************************************************************)
(* Hexadecimal text: str.upper() and bytes.fromhex().                      *)
(***************************************************************************)
HexDigits == <<"0","1","2","3","4","5","6","7","8","9","A","B","C","D","E","F">>
LowerHex == <<"a","b","c","d","e","f">>

IsSpace(c) == c \in {" ", "\t", "\n", "\r"}

\* str.upper() on one character (only hex letters occur in lower case)
UpperChar(c) ==
    IF \E i \in 1..Len(LowerHex) : LowerHex[i] = c
    THEN HexDigits[10 + CHOOSE i \in 1..Len(LowerHex) : LowerHex[i] = c]
    ELSE c

Upper(s) == [i \in 1..Len(s) |-> UpperChar(s[i])]

IsHexDigit(c) == \E i \in 1..Len(HexDigits) : HexDigits[i] = UpperChar(c)

HexVal(c) == (CHOOSE i \in 1..Len(HexDigits) : HexDigits[i] = UpperChar(c)) - 1

\* bytes.fromhex(s) reads s from left to right: ASCII whitespace is skipped
\* in front of a byte, the two digits of a byte must be adjacent, anything
\* else raises ValueError.  HexStep is the reading of one character; top is
\* the first digit of the byte being read, -1 between bytes.
HexStep(st, c) ==
    IF ~st.ok THEN st
    ELSE IF st.top = -1 THEN
        IF IsSpace(c) THEN st
        ELSE IF IsHexDigit(c) THEN [st EXCEPT !.top = HexVal(c)]
        ELSE [st EXCEPT !.ok = FALSE]
    ELSE IF IsHexDigit(c)
         THEN [ok |-> TRUE, top |-> -1,
               bytes |-> Append(st.bytes, (16 * st.top) + HexVal(c))]
         ELSE [st EXCEPT !.ok = FALSE]

\* HexStep over s[lo..hi] in order, the range split in halves so that the
\* evaluation stays shallow; it stops at the first error
RECURSIVE FromHexOver(_, _, _, _)
FromHexOver(st, s, lo, hi) ==
    IF lo > hi THEN st
    ELSE IF lo = hi THEN HexStep(st, s[lo])
    ELSE LET mid == (lo + hi) \div 2
             left == FromHexOver(st, s, lo, mid)
         IN  IF ~left.ok THEN left ELSE FromHexOver(left, s, mid + 1, hi)

FromHex(s) ==
    LET end == FromHexOver([ok |-> TRUE, top |-> -1, bytes |-> <<>>],
                           s, 1, Len(s))
    IN  IF end.ok /\ end.top = -1
        THEN [ok |-> TRUE, bytes |-> end.bytes]
        ELSE [ok |-> FALSE, bytes |-> <<>>]

(***************************************************************************)
(* Base64: base64.b64encode() and base64.b64decode() (validate=False).     *)
(***************************************************************************)
B64Alphabet ==
    <<"A","B","C","D","E","F","G","H","I","J","K","L","M","N","O","P",
      "Q","R","S","T","U","V","W","X","Y","Z","a","b","c","d","e","f",
      "g","h","i","j","k","l","m","n","o","p","q","r","s","t","u","v",
      "w","x","y","z","0","1","2","3","4","5","6","7","8","9","+","/">>

IsB64Char(c) == \E i \in 1..Len(B64Alphabet) : B64Alphabet[i] = c

B64Val(c) == (CHOOSE i \in 1..Len(B64Alphabet) : B64Alphabet[i] = c) - 1

\* b64encode: every three bytes give four characters of six bits each; a
\* last group of one or two bytes is filled with zero bits and padded "="
B64Encode(b) ==
    LET n == Len(b)
        at(j) == IF j <= n THEN b[j] ELSE 0
        char(k) ==
            LET g == 3 * ((k - 1) \div 4)
                p == (k - 1) % 4
            IN  CASE p = 0 -> B64Alphabet[(at(g + 1) \div 4) + 1]
                  [] p = 1 -> B64Alphabet[((at(g + 1) % 4) * 16)
                                              + (at(g + 2) \div 16) + 1]
                  [] p = 2 -> IF g + 2 > n THEN "="
                              ELSE B64Alphabet[((at(g + 2) % 16) * 4)
                                                  + (at(g + 3) \div 64) + 1]
                  [] OTHER -> IF g + 3 > n THEN "="
                              ELSE B64Alphabet[(at(g + 3) % 64) + 1]
    IN  [k \in 1..(4 * ((n + 2) \div 3)) |-> char(k)]

\* binascii.a2b_base64 in its default, non-strict mode reads the text from
\* left to right: characters outside the alphabet are discarded, a
\* complete pad sequence ends the input (done), and only an unfinished quad
\* at the end raises binascii.Error.  A2bStep is the reading of one
\* character.
A2bStep(st, c) ==
    IF st.done THEN st
    ELSE IF c = "=" THEN
        IF st.quad_pos >= 2 /\ st.quad_pos + st.pads + 1 >= 4
        THEN [st EXCEPT !.done = TRUE]
        ELSE IF st.quad_pos >= 2 THEN [st EXCEPT !.pads = st.pads + 1]
        ELSE st
    ELSE IF ~IsB64Char(c) THEN st
    ELSE LET v == B64Val(c)
         IN  CASE st.quad_pos = 0 ->
                    [st EXCEPT !.quad_pos = 1, !.leftchar = v, !.pads = 0]
               [] st.quad_pos = 1 ->
                    [st EXCEPT !.quad_pos = 2, !.leftchar = v % 16, !.pads = 0,
                               !.out = Append(st.out, (st.leftchar * 4) + (v \div 16))]
               [] st.quad_pos = 2 ->
                    [st EXCEPT !.quad_pos = 3, !.leftchar = v % 4, !.pads = 0,
                               !.out = Append(st.out, (st.leftchar * 16) + (v \div 4))]
               [] OTHER ->
                    [st EXCEPT !.quad_pos = 0, !.leftchar = 0, !.pads = 0,
                               !.out = Append(st.out, (st.leftchar * 64) + v)]

\* A2bStep over s[lo..hi] in order, the range split in halves so that the
\* evaluation stays shallow; it stops once the input is done
RECURSIVE A2bOver(_, _, _, _)
A2bOver(st, s, lo, hi) ==
    IF lo > hi THEN st
    ELSE IF lo = hi THEN A2bStep(st, s[lo])
    ELSE LET mid == (lo + hi) \div 2
             left == A2bOver(st, s, lo, mid)
         IN  IF left.done THEN left ELSE A2bOver(left, s, mid + 1, hi)

B64Decode(s) ==
    LET end == A2bOver([done |-> FALSE, quad_pos |-> 0, leftchar |-> 0,
                        pads |-> 0, out |-> <<>>], s, 1, Len(s))
    IN  IF ~end.done /\ end.quad_pos # 0
        THEN [ok |-> FALSE, bytes |-> <<>>]
        ELSE [ok |-> TRUE, bytes |-> end.out]

(***************************************************************************)
(* Program constants and the fixed names of one invocation.                *)
(***************************************************************************)
UNCOMPRESSED_PUBKEY_PREPEND ==
    <<"3","0","5","6","3","0","1","0","0","6","0","7","2","A","8","6",
      "4","8","C","E","3","D","0","2","0","1","0","6","0","5","2","B",
      "8","1","0","4","0","0","0","A","0","3","4","2","0","0">>

\* a compressed prepend one byte too long: the unused-bits byte twice
COMPRESSED_PUBKEY_PREPEND_24 ==
    <<"3","0","3","6","3","0","1","0","0","6","0","7","2","A","8","6",
      "4","8","C","E","3","D","0","2","0","1","0","6","0","5","2","B",
      "8","1","0","4","0","0","0","A","0","3","2","2","0","0","0","0">>

COMPRESSED_PUBKEY_PREPEND ==
    <<"3","0","3","6","3","0","1","0","0","6","0","7","2","A","8","6",
      "4","8","C","E","3","D","0","2","0","1","0","6","0","5","2","B",
      "8","1","0","4","0","0","0","A","0","3","2","2","0","0">>

\* utils.constants is imported by cli/signer.py; the values are the
\* protocol constants of the script.
KSIGNER_UNCOMPRESSED_PUBKEY_PREPEND == UNCOMPRESSED_PUBKEY_PREPEND
KSIGNER_COMPRESSED_PUBKEY_PREPEND == COMPRESSED_PUBKEY_PREPEND

PEM_BEGIN == <<"-----BEGIN PUBLIC KEY-----">>
PEM_END == <<"-----END PUBLIC KEY-----">>

\* --file and --owner of the invocation
File == "doc.txt"
Owner == "pubkey"

HASH_FILE == File \o ".sha256sum.txt"
SIG_FILE == File \o ".sig"
PEM_FILE == Owner \o ".pem"

\* contents the file to sign can have; "MISSING" stands for no such file
FileContents == {"B1", "B2"}

\* hashlib.sha256(bytes).hexdigest(), abstracted to an injective table of
\* (shortened) digests: equal bytes give equal digests, different bytes
\* different ones.
SHA256(b) == IF b = "B1" THEN "9f86d081" ELSE "60303ae2"

\* artifacts left by an earlier run
OLD_RECORD == "stale"
OLD_SIG == <<255>>
OLD_PEM == << <<"stale">> >>

(***************************************************************************)
(* What a camera can be shown.                                             *)
(***************************************************************************)
SigChars == {"Q", "=", "!"}
SigTexts == SeqsUpTo(SigChars, MaxSigLen) \ {<<>>}

KeyChars == {"0", "a", "z", " "}
CompressedKey == <<"0", "2">> \o Rep(<<"a", "b">>, 32)
UncompressedKey == <<"0", "4">> \o Rep(<<"c", "d">>, 64)
\* right length for the compressed form, leading byte of the other form
OddLeadKey == <<"0", "4">> \o Rep(<<"e", "f">>, 32)
KeyTexts ==
    (SeqsUpTo(KeyChars, MaxKeyLen) \ {<<>>})
        \cup {CompressedKey, UncompressedKey, OddLeadKey}

(***************************************************************************)
(* State.                                                                  *)
(***************************************************************************)
VARIABLES
    entry,       \* "script": krux-file-signer.py; "cli": a Signer object
    args,        \* parsed arguments / constructor keywords
    pc,          \* position of the run
    target,      \* bytes of the file to sign on disk, or "MISSING"
    present,     \* names of the artifact files that exist on disk
    hashRecord,  \* content of <file>.sha256sum.txt
    sigBytes,    \* content of <file>.sig
    pemLines,    \* content of <owner>.pem, line by line
    file_hash,   \* the digest held in memory ("" before hashing)
    qr_shown,    \* the data of the QR code printed last ("" if none)
    scanFor,     \* what the running scan() is for: "sig" or "pk"
    vid,         \* the cv2.VideoCapture handle: "none", "open", "released"
    qr_data,     \* what the last scan() decoded or returned
    frames,      \* frames polled without a decode while scan() is in its loop
    signature,   \* Signer.sign: the value scan_sig() returned
    pubkey,      \* the scanned public-key text
    exc,         \* class of the exception that ended the run ("" if none)
    verifyEnv,   \* what verify() met: "valid", "mismatch", "no_openssl", "no_shell"
    steps,       \* history: the workflow steps started so far, in order
    stopAt       \* history: Len(steps) when a step first failed or a
                 \* capture was first cancelled; 0 before that

vars == <<entry, args, pc, target, present, hashRecord, sigBytes, pemLines,
          file_hash, qr_shown, scanFor, vid, qr_data, frames, signature,
          pubkey, exc, verifyEnv, steps, stopAt>>

diskVars == <<present, hashRecord, sigBytes, pemLines>>
scanVars == <<scanFor, vid, qr_data, frames>>

ScanPcs == {"scan_poll", "scan_release"}

\* exit status of the script: an uncaught exception ends Python with 1
ExitStatus == IF exc = "" THEN 0 ELSE 1

\* the first failure or cancellation is remembered with the number of steps
\* started by then
MarkStop(n) == IF stopAt = 0 THEN n ELSE stopAt

Init ==
    /\ entry \in {"script", "cli"}
    /\ args \in [command : {"sign", "verify", "none"},
                 given : BOOLEAN, uncompressed : BOOLEAN]
    /\ entry = "cli" => args.command = "sign" /\ args.given
    /\ args.command # "sign" => ~args.uncompressed
    /\ pc = IF entry = "script" THEN "start" ELSE "cli_warn"
    /\ target \in {"MISSING", "B1"}
    /\ \/ /\ present = {}
          /\ hashRecord = ""
          /\ sigBytes = <<>>
          /\ pemLines = <<>>
       \/ /\ present = {HASH_FILE, SIG_FILE, PEM_FILE}
          /\ hashRecord = OLD_RECORD
          /\ sigBytes = OLD_SIG
          /\ pemLines = OLD_PEM
    /\ file_hash = ""
    /\ qr_shown = ""
    /\ scanFor = "sig"
    /\ vid = "none"
    /\ qr_data = <<>>
    /\ frames = 0
    /\ signature = <<>>
    /\ pubkey = <<>>
    /\ exc = ""
    /\ verifyEnv = "none"
    /\ steps = <<>>
    /\ stopAt = 0

(***************************************************************************)
(* The environment: the file to sign is an ordinary file, another process  *)
(* may rewrite it while the run holds its digest in memory.  Changes       *)
(* before the hash are covered by Init, changes after the QR code is       *)
(* printed are read by nothing.                                            *)
(***************************************************************************)
ModifyFile ==
    /\ pc \in {"save_hash", "emit", "cli_save_hash", "cli_emit"}
    /\ target = "B1"
    /\ target' = "B2"
    /\ UNCHANGED <<entry, args, pc, diskVars, file_hash, qr_shown, scanVars,
                   signature, pubkey, exc, verifyEnv, steps, stopAt>>

(***************************************************************************)
(* krux-file-signer.py: command dispatch.                                  *)
(***************************************************************************)
Dispatch ==
    /\ pc = "start"
    /\ pc' = IF args.command = "sign" /\ args.given THEN "hash"
             ELSE IF args.command = "verify" /\ args.given THEN "verify"
             ELSE "exit"   \* parser.print_help()
    /\ UNCHANGED <<entry, args, target, diskVars, file_hash, qr_shown,
                   scanVars, signature, pubkey, exc, verifyEnv, steps, stopAt>>

(***************************************************************************)
(* open_and_hash_file                                                      *)
(***************************************************************************)
OpenAndHashFile ==
    /\ pc = "hash"
    /\ steps' = Append(steps, "hash")
    /\ IF target = "MISSING"
       THEN /\ exc' = "FileNotFoundError"
            /\ pc' = "exit"
            /\ stopAt' = MarkStop(Len(steps'))
            /\ UNCHANGED file_hash
       ELSE /\ file_hash' = SHA256(target)
            /\ pc' = "save_hash"
            /\ UNCHANGED <<exc, stopAt>>
    /\ UNCHANGED <<entry, args, target, diskVars, qr_shown, scanVars,
                   signature, pubkey, verifyEnv>>

(***************************************************************************)
(* save_hashed_file                                                        *)
(***************************************************************************)
\* the line written: f"{__data__} {__hash_file__}"
HashedFileContent(data, path) == data \o " " \o (path \o ".sha256sum.txt")

SaveHashedFile ==
    /\ pc = "save_hash"
    /\ steps' = Append(steps, "record")
    /\ hashRecord' = HashedFileContent(file_hash, File)
    /\ present' = present \cup {File \o ".sha256sum.txt"}
    /\ pc' = "emit"
    /\ UNCHANGED <<entry, args, target, sigBytes, pemLines, file_hash,
                   qr_shown, scanVars, signature, pubkey, exc, verifyEnv,
                   stopAt>>

(***************************************************************************)
(* make_qr_code and the print of the QR code                               *)
(***************************************************************************)
\* a sign branch that hashes the file again for the QR code
QrCodeData_rehash == SHA256(target)

\* the data= argument of make_qr_code in the sign branch
QrCodeData == file_hash

MakeQrCode ==
    /\ pc = "emit"
    /\ steps' = Append(steps, "emit")
    /\ qr_shown' = QrCodeData
    /\ pc' = "scan_open"
    /\ scanFor' = "sig"
    /\ UNCHANGED <<entry, args, target, diskVars, file_hash, vid, qr_data,
                   frames, signature, pubkey, exc, verifyEnv, stopAt>>

(***************************************************************************)
(* scan: open the camera, poll frames, release the camera.                 *)
(***************************************************************************)
ScanTexts == IF scanFor = "sig" THEN SigTexts ELSE KeyTexts

\* input() prompt of the caller, cv2.VideoCapture(0), qr_data = None
ScanOpen ==
    /\ pc = "scan_open"
    /\ steps' = Append(steps, IF scanFor = "sig" THEN "capture_sig"
                              ELSE "capture_pubkey")
    /\ vid' = "open"
    /\ qr_data' = <<>>
    /\ frames' = 0
    /\ pc' = "scan_poll"
    /\ UNCHANGED <<entry, args, target, diskVars, file_hash, qr_shown,
                   scanFor, signature, pubkey, exc, verifyEnv, stopAt>>

\* one pass of the loop: a frame is read and a QR code is decoded from it
ScanDecode ==
    /\ pc = "scan_poll"
    /\ \E t \in ScanTexts : qr_data' = t
    /\ frames' = 0
    /\ pc' = "scan_release"
    /\ UNCHANGED <<entry, args, target, diskVars, file_hash, qr_shown,
                   scanFor, vid, signature, pubkey, exc, verifyEnv,
                   steps, stopAt>>

\* one pass of the loop: nothing decoded, the frame is shown, no quit key
ScanIdle ==
    /\ pc = "scan_poll"
    /\ frames < MaxFrames
    /\ frames' = frames + 1
    /\ qr_data' = <<>>
    /\ UNCHANGED <<entry, args, pc, target, diskVars, file_hash, qr_shown,
                   scanFor, vid, signature, pubkey, exc, verifyEnv, steps,
                   stopAt>>

\* one pass of the loop: nothing decoded, the frame is shown, "q" is down
ScanQuit ==
    /\ pc = "scan_poll"
    /\ qr_data' = <<>>
    /\ stopAt' = MarkStop(Len(steps))
    /\ frames' = 0
    /\ pc' = "scan_release"
    /\ UNCHANGED <<entry, args, target, diskVars, file_hash, qr_shown,
                   scanFor, vid, signature, pubkey, exc, verifyEnv,
                   steps>>

\* one pass of the loop: vid.read() yields no frame or the detector fails;
\* detectAndDecode (or imshow) raises cv2.error, which nothing in scan()
\* or in its callers catches
ScanFail ==
    /\ pc = "scan_poll"
    /\ exc' = "cv2.error"
    /\ stopAt' = MarkStop(Len(steps))
    /\ pc' = "exit"
    /\ UNCHANGED <<entry, args, target, diskVars, file_hash, qr_shown,
                   scanVars, signature, pubkey, verifyEnv, steps>>

\* after the loop: vid.release(), cv2.destroyAllWindows(), return qr_data;
\* scan_public_key hands the value on as the public key
ScanReturn ==
    /\ pc = "scan_release"
    /\ vid' = "released"
    /\ IF scanFor = "sig"
       THEN pc' = "sig_save" /\ UNCHANGED pubkey
       ELSE pc' = "cert" /\ pubkey' = qr_data
    /\ UNCHANGED <<entry, args, target, diskVars, file_hash, qr_shown,
                   scanFor, qr_data, frames, signature, exc, verifyEnv,
                   steps, stopAt>>

(***************************************************************************)
(* scan_and_save_signature, after scan() has returned                      *)
(***************************************************************************)
\* base64.b64decode(signature.encode())
DecodeSignature(text) == B64Decode(text)

SaveSignature ==
    /\ pc = "sig_save"
    /\ LET binary_signature == DecodeSignature(qr_data)
       IN  IF binary_signature.ok
           THEN /\ steps' = Append(steps, "persist_sig")
                /\ sigBytes' = binary_signature.bytes
                /\ present' = present \cup {File \o ".sig"}
                /\ scanFor' = "pk"
                /\ pc' = "scan_open"
                /\ UNCHANGED <<exc, stopAt>>
           ELSE /\ exc' = "binascii.Error"
                /\ stopAt' = MarkStop(Len(steps))
                /\ pc' = "exit"
                /\ UNCHANGED <<steps, sigBytes, present, scanFor>>
    /\ UNCHANGED <<entry, args, target, hashRecord, pemLines, file_hash,
                   qr_shown, vid, qr_data, frames, signature, pubkey,
                   verifyEnv>>

(***************************************************************************)
(* scan_and_create_public_key_certificate                                  *)
(***************************************************************************)
\* a builder that picks the prepend from the key's leading byte instead
PublicKeyData_autofix(uncompressed, hex_pubkey) ==
    IF Len(hex_pubkey) >= 2 /\ hex_pubkey[1] = "0" /\ hex_pubkey[2] = "4"
    THEN UNCOMPRESSED_PUBKEY_PREPEND \o hex_pubkey
    ELSE COMPRESSED_PUBKEY_PREPEND \o hex_pubkey

\* __public_key_data__: the prepend chosen by the flag, then the key text
PublicKeyData(uncompressed, hex_pubkey) ==
    IF uncompressed
    THEN UNCOMPRESSED_PUBKEY_PREPEND \o hex_pubkey
    ELSE COMPRESSED_PUBKEY_PREPEND \o hex_pubkey

\* "\n".join([BEGIN, base64, END])
PemPubKey(public_key_base64) == <<PEM_BEGIN, public_key_base64, PEM_END>>

CreatePublicKeyCertificate ==
    /\ pc = "cert"
    /\ steps' = Append(steps, "certificate")
    /\ LET raw == FromHex(PublicKeyData(args.uncompressed, pubkey))
       IN  IF raw.ok
           THEN /\ pemLines' = PemPubKey(B64Encode(raw.bytes))
                /\ present' = present \cup {Owner \o ".pem"}
                /\ UNCHANGED <<exc, stopAt>>
           ELSE /\ exc' = "ValueError"
                /\ stopAt' = MarkStop(Len(steps'))
                /\ UNCHANGED <<pemLines, present>>
    /\ pc' = "exit"
    /\ UNCHANGED <<entry, args, target, hashRecord, sigBytes, file_hash,
                   qr_shown, scanVars, signature, pubkey, verifyEnv>>

(***************************************************************************)
(* verify                                                                  *)
(***************************************************************************)
VerifyEnvs == {"valid", "mismatch", "no_openssl", "no_shell"}

\* exit status of the shell that runs the openssl pipeline: that of its
\* last command, 127 when the shell finds no openssl
ShellStatus(env) ==
    CASE env = "valid" -> 0
      [] env = "mismatch" -> 1
      [] OTHER -> 127

\* the exception verify() ends with: subprocess.run(check=True, shell=True)
\* raises CalledProcessError on any non-zero status and the handler raises
\* a CalledProcessError again; only a missing shell fails the launch
VerifyRaises(env) ==
    IF env = "no_shell" THEN "FileNotFoundError"
    ELSE IF ShellStatus(env) # 0 THEN "CalledProcessError"
    ELSE ""

Verify ==
    /\ pc = "verify"
    /\ \E env \in VerifyEnvs :
          /\ verifyEnv' = env
          /\ exc' = VerifyRaises(env)
    /\ pc' = "exit"
    /\ UNCHANGED <<entry, args, target, diskVars, file_hash, qr_shown,
                   scanVars, signature, pubkey, steps, stopAt>>

(***************************************************************************)
(* cli.scanner.Scanner, as the Signer uses it.  capture() yields the first *)
(* non-empty decoded text or Cancelled; scan_signature() base64-decodes    *)
(* the captured text and fails on invalid characters or padding.           *)
(***************************************************************************)
ScannerCapture(texts) ==
    {[cancelled |-> TRUE, text |-> <<>>]}
        \cup {[cancelled |-> FALSE, text |-> t] : t \in texts}

\* padded base64 text: whole quads of alphabet characters, "=" only as the
\* last one or two characters
IsPaddedBase64(text) ==
    /\ Len(text) % 4 = 0
    /\ \A i \in 1..Len(text) :
          \/ IsB64Char(text[i])
          \/ /\ text[i] = "="
             /\ i >= Len(text) - 1
             /\ i > 2
             /\ \A j \in i..Len(text) : text[j] = "="

ScanSignatureDecode(text) ==
    IF IsPaddedBase64(text) THEN B64Decode(text)
    ELSE [ok |-> FALSE, bytes |-> <<>>]

(***************************************************************************)
(* Signer.sign and its steps                                               *)
(***************************************************************************)
CliShowWarningMessages ==
    /\ pc = "cli_warn"
    /\ pc' = "cli_hash"
    /\ UNCHANGED <<entry, args, target, diskVars, file_hash, qr_shown,
                   scanVars, signature, pubkey, exc, verifyEnv, steps, stopAt>>

CliHashFile ==
    /\ pc = "cli_hash"
    /\ steps' = Append(steps, "hash")
    /\ IF target = "MISSING"
       THEN /\ exc' = "FileNotFoundError"
            /\ pc' = "exit"
            /\ stopAt' = MarkStop(Len(steps'))
            /\ UNCHANGED file_hash
       ELSE /\ file_hash' = SHA256(target)
            /\ pc' = "cli_save_hash"
            /\ UNCHANGED <<exc, stopAt>>
    /\ UNCHANGED <<entry, args, target, diskVars, qr_shown, scanVars,
                   signature, pubkey, verifyEnv>>

\* the line written: f"{data} {self.file}"
CliHashFileContent(data, file) == data \o " " \o file

CliSaveHashFile ==
    /\ pc = "cli_save_hash"
    /\ steps' = Append(steps, "record")
    /\ hashRecord' = CliHashFileContent(file_hash, File)
    /\ present' = present \cup {File \o ".sha256sum.txt"}
    /\ pc' = "cli_emit"
    /\ UNCHANGED <<entry, args, target, sigBytes, pemLines, file_hash,
                   qr_shown, scanVars, signature, pubkey, exc, verifyEnv,
                   stopAt>>

\* the data argument of _print_qrcode in sign()
CliQrCodeData == file_hash

CliPrintQrcode ==
    /\ pc = "cli_emit"
    /\ steps' = Append(steps, "emit")
    /\ qr_shown' = CliQrCodeData
    /\ pc' = "cli_scan_sig"
    /\ UNCHANGED <<entry, args, target, diskVars, file_hash, scanVars,
                   signature, pubkey, exc, verifyEnv, stopAt>>

CliScanSig ==
    /\ pc = "cli_scan_sig"
    /\ steps' = Append(steps, "capture_sig")
    /\ \E got \in ScannerCapture(SigTexts) :
          IF got.cancelled
          THEN /\ exc' = "Cancelled"
               /\ stopAt' = MarkStop(Len(steps'))
               /\ pc' = "exit"
               /\ UNCHANGED signature
          ELSE LET sig == ScanSignatureDecode(got.text)
               IN  IF sig.ok
                   THEN /\ signature' = sig.bytes
                        /\ pc' = "cli_save_sig"
                        /\ UNCHANGED <<exc, stopAt>>
                   ELSE /\ exc' = "MalformedBase64Error"
                        /\ stopAt' = MarkStop(Len(steps'))
                        /\ pc' = "exit"
                        /\ UNCHANGED signature
    /\ UNCHANGED <<entry, args, target, diskVars, file_hash, qr_shown,
                   scanVars, pubkey, verifyEnv>>

\* save_signature, then sign() returns
CliSaveSignature ==
    /\ pc = "cli_save_sig"
    /\ steps' = Append(steps, "persist_sig")
    /\ sigBytes' = signature
    /\ present' = present \cup {File \o ".sig"}
    /\ pc' = "sign_returned"
    /\ UNCHANGED <<entry, args, target, hashRecord, pemLines, file_hash,
                   qr_shown, scanVars, signature, pubkey, exc, verifyEnv,
                   stopAt>>

(***************************************************************************)
(* Signer.make_pubkey_certificate, a method of its own that sign() does    *)
(* not call; the owner of the Signer may call it once sign() has returned. *)
(***************************************************************************)
\* __public_key_data__: the prepend chosen by the flag, then pubkey.upper()
CliPublicKeyData(uncompressed, hex_pubkey) ==
    IF uncompressed
    THEN KSIGNER_UNCOMPRESSED_PUBKEY_PREPEND \o Upper(hex_pubkey)
    ELSE KSIGNER_COMPRESSED_PUBKEY_PREPEND \o Upper(hex_pubkey)

CliMakePubkeyCertificate ==
    /\ pc = "sign_returned"
    /\ \E got \in ScannerCapture(KeyTexts) :
          IF got.cancelled
          THEN /\ steps' = Append(steps, "capture_pubkey")
               /\ exc' = "Cancelled"
               /\ stopAt' = MarkStop(Len(steps'))
               /\ UNCHANGED <<pubkey, pemLines, present>>
          ELSE /\ steps' = steps \o <<"capture_pubkey", "certificate">>
               /\ pubkey' = got.text
               /\ LET raw == FromHex(CliPublicKeyData(args.uncompressed,
                                                      got.text))
                  IN  IF raw.ok
                      THEN /\ pemLines' = <<B64Encode(raw.bytes)>>
                           /\ present' = present \cup {Owner \o ".pem"}
                           /\ UNCHANGED <<exc, stopAt>>
                      ELSE /\ exc' = "ValueError"
                           /\ stopAt' = MarkStop(Len(steps'))
                           /\ UNCHANGED <<pemLines, present>>
    /\ pc' = "exit"
    /\ UNCHANGED <<entry, args, target, hashRecord, sigBytes, file_hash,
                   qr_shown, scanVars, signature, verifyEnv>>

(***************************************************************************)
(* The specification.                                                      *)
(***************************************************************************)
Next ==
    \/ ModifyFile
    \/ Dispatch
    \/ OpenAndHashFile
    \/ SaveHashedFile
    \/ MakeQrCode
    \/ ScanOpen
    \/ ScanDecode
    \/ ScanIdle
    \/ ScanQuit
    \/ ScanFail
    \/ ScanReturn
    \/ SaveSignature
    \/ CreatePublicKeyCertificate
    \/ Verify
    \/ CliShowWarningMessages
    \/ CliHashFile
    \/ CliSaveHashFile
    \/ CliPrintQrcode
    \/ CliScanSig
    \/ CliSaveSignature
    \/ CliMakePubkeyCertificate

Spec == Init /\ [][Next]_vars

(***************************************************************************)
(* Properties.                                                             *)
(***************************************************************************)
Range(s) == {s[i] : i \in 1..Len(s)}

SignOrder ==
    <<"hash", "record", "emit", "capture_sig", "persist_sig",
      "capture_pubkey", "certificate">>

\* the sign branch of the script ran to its end, or Signer.sign returned
SignCompleted ==
    \/ entry = "script" /\ args.command = "sign" /\ args.given
                        /\ pc = "exit" /\ exc = ""
    \/ entry = "cli" /\ pc = "sign_returned"

\* C1: a sign run that completes successfully has performed, once each and
\* in this order: hash, digest record, QR emit, signature capture,
\* signature persist, public-key capture, certificate; for the script's
\* sign branch and for Signer.sign alike.
C1_SignRunsEveryStepInOrder == SignCompleted => steps = SignOrder

\* scan() has returned to its caller in the script
ScanHasReturned == entry = "script" /\ pc \in {"sig_save", "cert"}

\* C2: capture() returns to its caller only with a non-empty decoded text
\* (or with a Cancelled outcome that is no text at all); never with the
\* empty string, in particular not after the quit key.
C2_CaptureNeverReturnsEmptyText == ScanHasReturned => Len(qr_data) > 0

\* C3: once a step of the script's sign run has failed or a capture has
\* been cancelled, no later step starts and the run does not end as a
\* success.
C3_FailureOrCancelStopsSign ==
    (entry = "script" /\ stopAt # 0) =>
        /\ Len(steps) = stopAt
        /\ pc = "exit" => ExitStatus # 0

\* C4: outside scan() the camera handle is never open: every exit from
\* scan(), by return or by exception, has released it.
C4_CameraReleasedOnEveryExit ==
    (entry = "script" /\ pc \notin {"scan_poll", "scan_release"}) =>
        vid # "open"

\* C5: verify reports a verification failure (tool ran, non-zero exit) and
\* a tool that could not be launched (openssl not installed) as two
\* different errors, and neither as success.
C5_VerifyDistinguishesFailures ==
    (pc = "exit" /\ verifyEnv \in {"mismatch", "no_openssl"}) =>
        /\ exc # ""
        /\ \A other \in {"mismatch", "no_openssl"} \ {verifyEnv} :
              exc # VerifyRaises(other)

\* C6: once the digest record is written, <file>.sha256sum.txt holds
\* exactly the line "<digest> <file>", <file> being the hashed file itself,
\* whatever the record held before.
C6_DigestRecordNamesHashedFile ==
    "record" \in Range(steps) =>
        /\ HASH_FILE \in present
        /\ hashRecord = file_hash \o " " \o File

\* C7: within one sign run the digest in the digest record is the digest
\* emitted as QR code: both are the one in-memory result of hashing, also
\* when the file on disk has changed since it was hashed.
C7_RecordedDigestIsEmittedDigest ==
    "emit" \in Range(steps) =>
        /\ qr_shown = file_hash
        /\ \E name \in {File, HASH_FILE} :
              hashRecord = qr_shown \o " " \o name

\* C7 witness: the script has emitted the digest of the bytes it hashed
\* although the file on disk has changed in between.
C7_Witness ==
    /\ entry = "script"
    /\ "emit" \in Range(steps)
    /\ target = "B2"
    /\ file_hash = SHA256("B1")
    /\ qr_shown = SHA256("B1")

\* a hex key as the device produces it: hex digits only, whole bytes
WellFormedHexKey(k) ==
    /\ Len(k) > 0
    /\ Len(k) % 2 = 0
    /\ \A i \in 1..Len(k) : IsHexDigit(k[i])

PlainHexBytes(k) ==
    [i \in 1..(Len(k) \div 2) |-> (16 * HexVal(k[(2 * i) - 1])) + HexVal(k[2 * i])]

\* the prepend the flag alone selects, as bytes
FlagPrependBytes ==
    FromHex(IF args.uncompressed THEN UNCOMPRESSED_PUBKEY_PREPEND
            ELSE COMPRESSED_PUBKEY_PREPEND).bytes

\* key bytes the prepend's BIT STRING length announces (its last but one
\* byte, less the unused-bits byte)
DeclaredKeyBytes == FlagPrependBytes[Len(FlagPrependBytes) - 1] - 1

\* the bytes of the certificate on disk: the base64 payload, decoded
CertBytes ==
    B64Decode(IF Len(pemLines) = 3 THEN pemLines[2] ELSE pemLines[1]).bytes

\* a complete DER SubjectPublicKeyInfo at the start of b: a SEQUENCE whose
\* content is present and is exactly an algorithm SEQUENCE followed by a
\* BIT STRING (short-form lengths); bytes after it are tolerated
DerParseable(b) ==
    /\ Len(b) >= 4
    /\ b[1] = 48 /\ b[2] < 128
    /\ 2 + b[2] <= Len(b)
    /\ b[3] = 48 /\ b[4] < 128
    /\ 4 + b[4] + 2 <= 2 + b[2]
    /\ b[4 + b[4] + 1] = 3
    /\ b[4 + b[4] + 2] < 128
    /\ 4 + b[4] + 2 + b[4 + b[4] + 2] = 2 + b[2]

\* the certificate step has run on a well-formed hex key
CertBuiltFromHexKey ==
    "certificate" \in Range(steps) /\ WellFormedHexKey(pubkey)

\* the builder finished: no error, <owner>.pem written (PEM-armoured by the
\* script, bare base64 by the Signer) with prepend ++ key as its bytes,
\* the prepend being the one the flag selects
CertIsPrependThenKey ==
    /\ exc = ""
    /\ PEM_FILE \in present
    /\ entry = "script" => /\ Len(pemLines) = 3
                           /\ pemLines[1] = PEM_BEGIN
                           /\ pemLines[3] = PEM_END
    /\ entry = "cli" => Len(pemLines) = 1
    /\ CertBytes = FlagPrependBytes \o PlainHexBytes(pubkey)

\* a key of one of the two lengths the device produces (33 or 65 bytes)
HasDeviceKeyLength(k) == Len(PlainHexBytes(k)) \in {33, 65}

\* C8 as stated, for keys of the device's two lengths: the certificate is
\* prepend(flag) ++ key bytes, built without error, and it is structurally
\* parseable also when the key does not match the flag.
C8_Original_AlwaysParseable ==
    (CertBuiltFromHexKey /\ HasDeviceKeyLength(pubkey)) =>
        (CertIsPrependThenKey /\ DerParseable(CertBytes))

\* C8 amended: for every well-formed hex key the certificate is
\* prepend(flag) ++ key bytes, built without error and without re-selecting
\* anything; it is structurally parseable exactly when the key supplies at
\* least the bytes the selected prepend announces.
C8_PrependByFlagParseableIfLongEnough ==
    CertBuiltFromHexKey =>
        /\ CertIsPrependThenKey
        /\ DerParseable(CertBytes) <=>
              (Len(PlainHexBytes(pubkey)) >= DeclaredKeyBytes)

\* C8 witness: the script built a certificate from the 65-byte key with
\* the compressed prepend; nothing was re-selected and a complete structure
\* stands at its start.
C8_Witness ==
    /\ entry = "script"
    /\ "certificate" \in Range(steps)
    /\ pubkey = UncompressedKey
    /\ ~args.uncompressed
    /\ CertBytes = FromHex(COMPRESSED_PUBKEY_PREPEND).bytes
                      \o PlainHexBytes(UncompressedKey)
    /\ DerParseable(CertBytes)

\* the signature step of the script has accepted the scanned text
SignatureAccepted == entry = "script" /\ pc = "scan_open" /\ scanFor = "pk"

\* C9: a scanned text with a character outside the base64 alphabet or with
\* invalid padding is never decoded and written to <file>.sig.
C9_MalformedBase64NeverSaved == SignatureAccepted => IsPaddedBase64(qr_data)

MalformedHexKey(k) ==
    \/ Len(k) % 2 = 1
    \/ \E i \in 1..Len(k) : ~IsHexDigit(k[i])

\* C10: for a key text of odd length or with a character that is no hex
\* digit the certificate step fails, in compressed and uncompressed mode.
C10_MalformedHexKeyFails ==
    ("certificate" \in Range(steps) /\ MalformedHexKey(pubkey)) =>
        exc = "ValueError"

\* the certificate step has run in compressed mode on a well-formed
\* 33-byte hex key
CompressedCertBuilt ==
    /\ "certificate" \in Range(steps)
    /\ ~args.uncompressed
    /\ WellFormedHexKey(pubkey)
    /\ Len(PlainHexBytes(pubkey)) = 33

\* C11 as stated: the compressed prepend is 24 bytes long, so the decoded
\* certificate of a 33-byte compressed key has 24 + 33 = 57 bytes.
C11_Original_Prepend24Cert57 ==
    CompressedCertBuilt =>
        /\ Len(CertBytes) - Len(PlainHexBytes(pubkey)) = 24
        /\ Len(CertBytes) = 57

\* C11 amended: the compressed prepend is 23 bytes long, so the decoded
\* certificate of a 33-byte compressed key is a 56-byte DER structure: the
\* outer SEQUENCE announces exactly the 54 bytes that follow its header.
C11_Prepend23Cert56 ==
    CompressedCertBuilt =>
        /\ exc = ""
        /\ Len(CertBytes) - Len(PlainHexBytes(pubkey)) = 23
        /\ Len(CertBytes) = 56
        /\ DerParseable(CertBytes)
        /\ 2 + CertBytes[2] = Len(CertBytes)

\* C11 witness: the script has written the certificate of the 33-byte
\* compressed key in compressed mode.
C11_Witness ==
    /\ entry = "script"
    /\ pc = "exit"
    /\ "certificate" \in Range(steps)
    /\ ~args.uncompressed
    /\ pubkey = CompressedKey
    /\ PEM_FILE \in present
    /\ Len(CertBytes) = 56

====
